---- MODULE Spec2Model ----
(***************************************************************************)
(* Model of Source/LyraGame/Performance/LyraPerformanceStatSubsystem.h:    *)
(* FSampledStatCache (a fixed-size ring buffer of samples) and             *)
(* FLyraPerformanceStatCache (one FSampledStatCache per stat type).        *)
(*                                                                         *)
(* Two specifications share the buffer operators:                          *)
(*   SpecCache  one FSampledStatCache: construction and RecordSample       *)
(*   Spec       the FLyraPerformanceStatCache observer and its queries     *)
(* Samples are doubles in the source; the model records small integers,    *)
(* on which double arithmetic is exact, and keeps a quotient as a          *)
(* numerator/denominator pair.                                             *)
(***************************************************************************)
EXTENDS Integers, Sequences, FiniteSets

VARIABLES
  cache,          \* the FSampledStatCache under test, or NoCache
  outcome,        \* "none" before construction, "ok", or "fatal" (check failed)
  InSampleSize,   \* argument the constructor was called with, or NoArg
  recorded,       \* history: every value passed to RecordSample, in order
  PerfStateCache, \* TMap<ELyraDisplayablePerformanceStat, FSampledStatCache>
  charting,       \* TRUE between StartCharting and StopCharting
  SampleWindow,   \* sample size the observer's buffers are constructed with
  lastRecorded,   \* history: per stat, the value of its latest RecordStat
  ret,            \* the last call on the observer and what it returned
  stopped,        \* history: StopCharting was called and StartCharting not since
  pc,             \* SpecSteps: the statement of RecordSample the writer is at
  inFlight,       \* SpecSteps: the Sample argument of the call in progress
  seen            \* SpecSteps: the last call of the reader and what it returned

vars == <<cache, outcome, InSampleSize, recorded,
          PerfStateCache, charting, SampleWindow, lastRecorded, ret, stopped,
          pc, inFlight, seen>>

cacheVars == <<cache, outcome, InSampleSize, recorded>>
observerVars == <<PerfStateCache, charting, SampleWindow, lastRecorded, ret, stopped>>
stepVars == <<pc, inFlight, seen>>

\* ---------------------------------------------------------------- bounds
MaxCap == 4
MaxRecords == 5
MaxWindow == 2
MaxStepRecords == 4

\* sample values fed to RecordSample
Values == {-1, 0, 1, 2, 3, 4, 5, 6, 8}
\* arguments tried for the constructor (non-positive ones included)
CapacityInputs == (0 - 1)..MaxCap

NoCache == "NoCache"
NoArg == "NoArg"

\* ------------------------------------------------- FSampledStatCache
\* Samples is a TArray indexed from 0; slot i of the source is Samples[i + 1].

\* the members after a constructor whose check passed
ZeroedCache(size) ==
  [SampleSize |-> size,
   CurrentSampleIndex |-> 0,
   Samples |-> [i \in 1..size |-> 0]]

FSampledStatCacheClamped(size) ==
  [outcome |-> "ok", cache |-> ZeroedCache(IF size > 0 THEN size ELSE 1)]

\* FSampledStatCache(InSampleSize): check(InSampleSize > 0), then AddZeroed
FSampledStatCache(size) ==
  IF size > 0
    THEN [outcome |-> "ok", cache |-> ZeroedCache(size)]
    ELSE [outcome |-> "fatal", cache |-> NoCache]

RecordSampleStoreAfterAdvance(c, Sample) ==
  LET inc == c.CurrentSampleIndex + 1
      wrapped == IF inc >= Len(c.Samples) THEN 0 ELSE inc
  IN [c EXCEPT !.Samples[wrapped + 1] = Sample,
               !.CurrentSampleIndex = wrapped]

RecordSampleWrapLate(c, Sample) ==
  LET written == [c.Samples EXCEPT ![c.CurrentSampleIndex + 1] = Sample]
      inc == c.CurrentSampleIndex + 1
  IN [c EXCEPT !.Samples = written,
               !.CurrentSampleIndex = IF inc > Len(written) THEN 0 ELSE inc]

RecordSample(c, Sample) ==
  LET written == [c.Samples EXCEPT ![c.CurrentSampleIndex + 1] = Sample]
      inc == c.CurrentSampleIndex + 1
  IN [c EXCEPT !.Samples = written,
               !.CurrentSampleIndex = IF inc >= Len(written) THEN 0 ELSE inc]

GetCurrentCachedStatNewest(c) ==
  c.Samples[((c.CurrentSampleIndex + c.SampleSize - 1) % c.SampleSize) + 1]

GetCurrentCachedStat(c) == c.Samples[c.CurrentSampleIndex + 1]

GetLastCachedStatNoWrap(c) ==
  LET LastIndex == c.CurrentSampleIndex - 1
  IN c.Samples[(IF LastIndex < 0 THEN 0 ELSE LastIndex) + 1]

GetLastCachedStat(c) ==
  LET LastIndex == c.CurrentSampleIndex - 1
  IN c.Samples[(IF LastIndex < 0 THEN Len(c.Samples) - 1 ELSE LastIndex) + 1]

RECURSIVE ForEachLoopOneShort(_, _, _, _)
ForEachLoopOneShort(c, i, Index, visited) ==
  IF i < c.SampleSize - 1
    THEN LET inc == Index + 1
         IN ForEachLoopOneShort(c, i + 1, IF inc = c.SampleSize THEN 0 ELSE inc,
                                Append(visited, c.Samples[Index + 1]))
    ELSE visited

\* the loop of ForEachCurrentSample: i counts the calls made, Index is the
\* slot visited next, visited the arguments Func has been called with so far
RECURSIVE ForEachLoop(_, _, _, _)
ForEachLoop(c, i, Index, visited) ==
  IF i < c.SampleSize
    THEN LET inc == Index + 1
         IN ForEachLoop(c, i + 1, IF inc = c.SampleSize THEN 0 ELSE inc,
                        Append(visited, c.Samples[Index + 1]))
    ELSE visited

ForEachCurrentSampleFromZero(c) == ForEachLoop(c, 0, 0, <<>>)

\* the sequence of values Func is called with
ForEachCurrentSample(c) == ForEachLoop(c, 0, c.CurrentSampleIndex, <<>>)

GetSampleSize(c) == c.SampleSize

\* Sum += Stat over the visited values
RECURSIVE SumOf(_)
SumOf(s) == IF s = <<>> THEN 0 ELSE Head(s) + SumOf(Tail(s))

GetAverageTruncated(c) ==
  [num |-> SumOf(ForEachCurrentSample(c)) \div c.SampleSize, den |-> 1]

\* Sum / static_cast<double>(SampleSize), kept as the exact quotient
GetAverage(c) == [num |-> SumOf(ForEachCurrentSample(c)), den |-> c.SampleSize]

\* Algo::MinElement / Algo::MaxElement: scan from the first element, keep the
\* first element no later one is smaller (larger) than
RECURSIVE MinElement(_, _, _)
MinElement(s, i, best) ==
  IF i > Len(s) THEN best
  ELSE MinElement(s, i + 1, IF s[i] < s[best] THEN i ELSE best)

RECURSIVE MaxElement(_, _, _)
MaxElement(s, i, best) ==
  IF i > Len(s) THEN best
  ELSE MaxElement(s, i + 1, IF s[best] < s[i] THEN i ELSE best)

GetMinSkipFirst(c) ==
  IF Len(c.Samples) = 1 THEN c.Samples[1]
  ELSE c.Samples[MinElement(c.Samples, 3, 2)]

GetMin(c) == c.Samples[MinElement(c.Samples, 2, 1)]

GetMax(c) == c.Samples[MaxElement(c.Samples, 2, 1)]

\* what a call on the observer returned: ptr is "nullptr" or the stat whose
\* buffer is pointed to, num/den a double, visited the values given to Func
Returned(op, key) ==
  [op |-> op, key |-> key, ptr |-> "nullptr", num |-> 0, den |-> 1, visited |-> <<>>]

\* what a call of the reader returned: at is the writer's pc during the call,
\* oob tells that the call indexed Samples outside 0..Num()-1, fatal that the
\* array's range check stopped the program
Seen(method, at) ==
  [method |-> method, at |-> at, oob |-> FALSE, fatal |-> FALSE,
   num |-> 0, visited |-> <<>>]

\* no RecordSample in progress, no reader call made
NoCallInProgress ==
  /\ pc = "idle"
  /\ inFlight = 0
  /\ seen = Seen("none", "idle")

\* ------------------------------------------ SpecCache: one buffer
ObserverIdle ==
  /\ PerfStateCache = <<>>
  /\ charting = FALSE
  /\ SampleWindow = 1
  /\ lastRecorded = <<>>
  /\ ret = Returned("none", "none")
  /\ stopped = FALSE

InitCache ==
  /\ cache = NoCache
  /\ outcome = "none"
  /\ InSampleSize = NoArg
  /\ recorded = <<>>
  /\ ObserverIdle
  /\ NoCallInProgress

\* FSampledStatCache Cache(size);
Construct(size) ==
  /\ outcome = "none"
  /\ InSampleSize' = size
  /\ outcome' = FSampledStatCache(size).outcome
  /\ cache' = FSampledStatCache(size).cache
  /\ UNCHANGED <<recorded>>
  /\ UNCHANGED <<observerVars, stepVars>>

\* Cache.RecordSample(Sample);
DoRecordSample(Sample) ==
  /\ outcome = "ok"
  /\ Len(recorded) < MaxRecords
  /\ cache' = RecordSample(cache, Sample)
  /\ recorded' = Append(recorded, Sample)
  /\ UNCHANGED <<outcome, InSampleSize>>
  /\ UNCHANGED <<observerVars, stepVars>>

NextCache ==
  \/ \E size \in CapacityInputs : Construct(size)
  \/ \E Sample \in Values : DoRecordSample(Sample)

SpecCache == InitCache /\ [][NextCache]_vars

\* ------------------------------------------- properties of SpecCache
Constructed == outcome = "ok"
Capacity == cache.SampleSize
NumRecorded == Len(recorded)

\* the last n values passed to RecordSample, oldest first
LastRecorded(n) == SubSeq(recorded, NumRecorded - n + 1, NumRecorded)

C2_LastIsNewest ==
  (Constructed /\ NumRecorded >= 1) =>
     GetLastCachedStat(cache) = recorded[NumRecorded]

C2_Witness ==
  /\ Constructed /\ Capacity = 3 /\ NumRecorded = 3
  /\ cache.CurrentSampleIndex = 0
  /\ recorded[3] = 5 /\ recorded[1] # 5
  /\ GetLastCachedStat(cache) = 5

\* C3: GetCurrentCachedStat returns the slot at the write index, the oldest
\* value of the window: the value recorded C calls ago once n >= C samples have
\* been recorded, and the zero fill while n < C; capacity 3 after 1,2,3,4,5
\* gives current 3 and last 5.
C3_CurrentIsOldest ==
  Constructed =>
     /\ (NumRecorded >= Capacity =>
           GetCurrentCachedStat(cache) = recorded[NumRecorded - Capacity + 1])
     /\ (NumRecorded < Capacity => GetCurrentCachedStat(cache) = 0)
     /\ ((Capacity = 3 /\ recorded = <<1, 2, 3, 4, 5>>) =>
           /\ GetCurrentCachedStat(cache) = 3
           /\ GetLastCachedStat(cache) = 5)

C3_Witness ==
  /\ Constructed /\ Capacity = 3
  /\ recorded = <<1, 2, 3, 4, 5>>
  /\ GetCurrentCachedStat(cache) = 3
  /\ GetLastCachedStat(cache) = 5

\* C5: in every state of a buffer constructed with capacity C > 0, the sample
\* array has exactly C slots, the write index is in 0..C-1 and GetSampleSize
\* returns C, the capacity given at construction.
C5_ShapeInvariant ==
  Constructed =>
     /\ InSampleSize > 0
     /\ Len(cache.Samples) = InSampleSize
     /\ cache.CurrentSampleIndex \in 0..(InSampleSize - 1)
     /\ GetSampleSize(cache) = InSampleSize

C5_Witness ==
  /\ Constructed /\ InSampleSize = 3 /\ NumRecorded = 4
  /\ cache.CurrentSampleIndex = 1
  /\ Len(cache.Samples) = 3

\* the sum of all the slots, taken slot by slot
RECURSIVE SlotSum(_, _)
SlotSum(c, n) == IF n = 0 THEN 0 ELSE c.Samples[n] + SlotSum(c, n - 1)

\* equality of two quotients
SameQuotient(a, b) == a.num * b.den = b.num * a.den

\* C6: GetAverage is the sum of all C slots divided by the capacity C, never by
\* the number of samples recorded: after k < C records the divisor is still C
\* and the sum is that of the k recorded values; capacity 4 after 2,4,6,8
\* averages 5.
C6_AverageOverCapacity ==
  Constructed =>
     /\ SameQuotient(GetAverage(cache),
                     [num |-> SlotSum(cache, Capacity), den |-> Capacity])
     /\ (NumRecorded < Capacity =>
           SameQuotient(GetAverage(cache),
                        [num |-> SumOf(recorded), den |-> Capacity]))
     /\ ((Capacity = 4 /\ recorded = <<2, 4, 6, 8>>) =>
           SameQuotient(GetAverage(cache), [num |-> 5, den |-> 1]))

C6_Witness ==
  /\ Constructed /\ Capacity = 4 /\ recorded = <<2, 4, 6, 8>>
  /\ SameQuotient(GetAverage(cache), [num |-> 5, den |-> 1])

C6_WitnessPartial ==
  /\ Constructed /\ Capacity = 4 /\ recorded = <<2, 4, 6>>
  /\ SameQuotient(GetAverage(cache), [num |-> 3, den |-> 1])

IsLeast(m, s) == (\E i \in 1..Len(s) : s[i] = m) /\ (\A i \in 1..Len(s) : m <= s[i])
IsGreatest(m, s) == (\E i \in 1..Len(s) : s[i] = m) /\ (\A i \in 1..Len(s) : s[i] <= m)

\* C7: GetMin and GetMax are the least and greatest value over all C slots,
\* zero-filled slots included: with at least C samples recorded they are the
\* least and greatest of the last C recorded values; with fewer,
\* GetMin <= 0 <= GetMax, and GetMin is 0 when every recorded value is positive.
C7_MinMaxOverAllSlots ==
  Constructed =>
     /\ IsLeast(GetMin(cache), cache.Samples)
     /\ IsGreatest(GetMax(cache), cache.Samples)
     /\ (NumRecorded >= Capacity =>
           /\ IsLeast(GetMin(cache), LastRecorded(Capacity))
           /\ IsGreatest(GetMax(cache), LastRecorded(Capacity)))
     /\ (NumRecorded < Capacity =>
           /\ GetMin(cache) <= 0 /\ 0 <= GetMax(cache)
           /\ ((\A i \in 1..NumRecorded : recorded[i] > 0) => GetMin(cache) = 0))

C7_Witness ==
  /\ Constructed /\ Capacity = 4 /\ recorded = <<2, 4, 6, 8>>
  /\ GetMin(cache) = 2 /\ GetMax(cache) = 8

C7_WitnessPartial ==
  /\ Constructed /\ Capacity = 4 /\ recorded = <<2, 4, 6>>
  /\ GetMin(cache) = 0 /\ GetMax(cache) = 6

\* C8: constructing with a capacity <= 0 ends in the fatal outcome: the
\* capacity is not clamped and there is no buffer to record into.
C8_NonPositiveCapacityFatal ==
  (outcome # "none" /\ InSampleSize <= 0) =>
     /\ outcome = "fatal"
     /\ ~ ENABLED (\E Sample \in Values : DoRecordSample(Sample))

C8_Witness == outcome = "fatal" /\ InSampleSize = 0

C8_WitnessNegative == outcome = "fatal" /\ InSampleSize < 0

\* ------------------------------------- FLyraPerformanceStatCache
\* ELyraDisplayablePerformanceStat values; ProcessFrame derives a value from
\* the frame data for the stats in RecordedStats only
StatTypes == {"ClientFPS", "FrameTime", "Latency"}
RecordedStats == {"ClientFPS", "FrameTime"}
FrameValues == {0, 1, 2}
FrameDatas == [RecordedStats -> FrameValues]

\* PerfStateCache is a function whose domain is the set of stats that have a
\* buffer
Tracked(map) == DOMAIN map

RecordStat(map, window, Stat, Value) ==
  LET found == IF Stat \in Tracked(map) THEN map[Stat] ELSE ZeroedCache(window)
  IN [k \in Tracked(map) \cup {Stat} |->
        IF k = Stat THEN RecordSample(found, Value) ELSE map[k]]

RECURSIVE RecordStats(_, _, _, _)
RecordStats(map, window, FrameData, stats) ==
  IF stats = {} THEN map
  ELSE LET Stat == CHOOSE k \in stats : TRUE
       IN RecordStats(RecordStat(map, window, Stat, FrameData[Stat]),
                      window, FrameData, stats \ {Stat})

GetCachedStatData(map, Stat) ==
  IF Stat \in Tracked(map) THEN Stat ELSE "nullptr"

GetCachedStat(map, Stat) ==
  IF GetCachedStatData(map, Stat) # "nullptr"
    THEN GetCurrentCachedStat(map[Stat])
    ELSE 0

\* ------------------------------------------- Spec: the observer
Init ==
  /\ cache = NoCache
  /\ outcome = "none"
  /\ InSampleSize = NoArg
  /\ recorded = <<>>
  /\ PerfStateCache = <<>>
  /\ charting = FALSE
  /\ SampleWindow \in 1..MaxWindow
  /\ NoCallInProgress
  /\ lastRecorded = <<>>
  /\ ret = Returned("none", "none")
  /\ stopped = FALSE

StartChartingResetting ==
  /\ charting' = TRUE
  /\ stopped' = FALSE
  /\ PerfStateCache' = <<>>
  /\ ret' = Returned("StartCharting", "none")
  /\ UNCHANGED <<SampleWindow, lastRecorded>>
  /\ UNCHANGED <<cacheVars, stepVars>>

StartCharting ==
  /\ charting' = TRUE
  /\ stopped' = FALSE
  /\ ret' = Returned("StartCharting", "none")
  /\ UNCHANGED <<PerfStateCache, SampleWindow, lastRecorded>>
  /\ UNCHANGED <<cacheVars, stepVars>>

StopCharting ==
  /\ charting' = FALSE
  /\ stopped' = TRUE
  /\ ret' = Returned("StopCharting", "none")
  /\ UNCHANGED <<PerfStateCache, SampleWindow, lastRecorded>>
  /\ UNCHANGED <<cacheVars, stepVars>>

ProcessFrame(FrameData) ==
  /\ PerfStateCache' = RecordStats(PerfStateCache, SampleWindow, FrameData, RecordedStats)
  /\ lastRecorded' = [k \in DOMAIN lastRecorded \cup RecordedStats |->
                        IF k \in RecordedStats THEN FrameData[k] ELSE lastRecorded[k]]
  /\ ret' = Returned("ProcessFrame", "none")
  /\ UNCHANGED <<charting, SampleWindow, stopped>>
  /\ UNCHANGED <<cacheVars, stepVars>>

DoGetCachedStat(Stat) ==
  /\ ret' = [Returned("GetCachedStat", Stat) EXCEPT
               !.num = GetCachedStat(PerfStateCache, Stat)]
  /\ UNCHANGED <<PerfStateCache, charting, SampleWindow, lastRecorded, stopped>>
  /\ UNCHANGED <<cacheVars, stepVars>>

DoGetCachedStatDataAdding(Stat) ==
  /\ PerfStateCache' =
       [k \in Tracked(PerfStateCache) \cup {Stat} |->
          IF k \in Tracked(PerfStateCache) THEN PerfStateCache[k]
          ELSE ZeroedCache(SampleWindow)]
  /\ ret' = [Returned("GetCachedStatData", Stat) EXCEPT !.ptr = Stat]
  /\ UNCHANGED <<charting, SampleWindow, lastRecorded, stopped>>
  /\ UNCHANGED <<cacheVars, stepVars>>

DoGetCachedStatData(Stat) ==
  /\ ret' = [Returned("GetCachedStatData", Stat) EXCEPT
               !.ptr = GetCachedStatData(PerfStateCache, Stat)]
  /\ UNCHANGED <<PerfStateCache, charting, SampleWindow, lastRecorded, stopped>>
  /\ UNCHANGED <<cacheVars, stepVars>>

\* the const member functions of FSampledStatCache
ConstMethods == {"GetCurrentCachedStat", "GetLastCachedStat", "ForEachCurrentSample",
                 "GetSampleSize", "GetAverage", "GetMin", "GetMax"}

ConstResult(c, Stat, Method) ==
  LET r == Returned(Method, Stat) IN
  CASE Method = "GetCurrentCachedStat" -> [r EXCEPT !.num = GetCurrentCachedStat(c)]
    [] Method = "GetLastCachedStat" -> [r EXCEPT !.num = GetLastCachedStat(c)]
    [] Method = "ForEachCurrentSample" -> [r EXCEPT !.visited = ForEachCurrentSample(c)]
    [] Method = "GetSampleSize" -> [r EXCEPT !.num = GetSampleSize(c)]
    [] Method = "GetAverage" -> [r EXCEPT !.num = GetAverage(c).num, !.den = GetAverage(c).den]
    [] Method = "GetMin" -> [r EXCEPT !.num = GetMin(c)]
    [] Method = "GetMax" -> [r EXCEPT !.num = GetMax(c)]

CallConstStepping(Stat, Method) ==
  /\ GetCachedStatData(PerfStateCache, Stat) # "nullptr"
  /\ ret' = ConstResult(PerfStateCache[Stat], Stat, Method)
  /\ PerfStateCache' =
       [PerfStateCache EXCEPT ![Stat].CurrentSampleIndex =
          (@ + 1) % PerfStateCache[Stat].SampleSize]
  /\ UNCHANGED <<charting, SampleWindow, lastRecorded, stopped>>
  /\ UNCHANGED <<cacheVars, stepVars>>

\* GetCachedStatData(Stat)->Method(): a const member function called on the
\* buffer the observer returned
CallConst(Stat, Method) ==
  /\ GetCachedStatData(PerfStateCache, Stat) # "nullptr"
  /\ ret' = ConstResult(PerfStateCache[Stat], Stat, Method)
  /\ UNCHANGED <<PerfStateCache, charting, SampleWindow, lastRecorded, stopped>>
  /\ UNCHANGED <<cacheVars, stepVars>>

Next ==
  \/ StartCharting
  \/ StopCharting
  \/ \E FrameData \in FrameDatas : ProcessFrame(FrameData)
  \/ \E Stat \in StatTypes : DoGetCachedStat(Stat)
  \/ \E Stat \in StatTypes : DoGetCachedStatData(Stat)
  \/ \E Stat \in StatTypes, Method \in ConstMethods : CallConst(Stat, Method)

Spec == Init /\ [][Next]_vars

\* ------------------------------------------------ properties of Spec
\* C4: GetCachedStat of a tracked stat returns the latest cached value, the
\* value most recently recorded into that stat's buffer by ProcessFrame.
C4_CachedStatIsLatest ==
  \A Stat \in Tracked(PerfStateCache) :
     GetCachedStat(PerfStateCache, Stat) = lastRecorded[Stat]

\* the steps that are a query on the observer or on a buffer it returned
ObserverQueries == {"GetCachedStat", "GetCachedStatData"}
QueryStep == ret'.op \in ObserverQueries \cup ConstMethods

\* C9: in every state, GetCachedStat of a stat without a buffer returns 0 and
\* GetCachedStatData returns null; both calls can always be made, and neither
\* adds a buffer: the set of tracked stats is the same after the call.
C9_UntrackedDefaults ==
  [][ /\ \A Stat \in StatTypes \ Tracked(PerfStateCache) :
           /\ ENABLED DoGetCachedStat(Stat)
           /\ ENABLED DoGetCachedStatData(Stat)
      /\ (ret'.op \in ObserverQueries /\ ret'.key \notin Tracked(PerfStateCache)) =>
           /\ Tracked(PerfStateCache') = Tracked(PerfStateCache)
           /\ ret'.op = "GetCachedStat" => (ret'.num = 0 /\ ret'.den = 1)
           /\ ret'.op = "GetCachedStatData" => ret'.ptr = "nullptr" ]_vars

C9_Witness ==
  /\ ret.op = "GetCachedStat" /\ ret.key = "Latency" /\ ret.num = 0
  /\ charting
  /\ "ClientFPS" \in Tracked(PerfStateCache)
  /\ "Latency" \notin Tracked(PerfStateCache)

C9_WitnessIdleNull ==
  /\ ret.op = "GetCachedStatData" /\ ret.key = "ClientFPS" /\ ret.ptr = "nullptr"
  /\ ~ charting
  /\ Tracked(PerfStateCache) = {}

\* C10: a query changes no buffer (samples, write index) and not the set of
\* tracked stats, and the same query made again right after it returns the
\* same result.
C10_QueriesReadOnly ==
  [][ QueryStep =>
        /\ PerfStateCache' = PerfStateCache
        /\ (ret.op = ret'.op /\ ret.key = ret'.key) => ret' = ret ]_vars

C10_Witness ==
  /\ ret.op = "GetAverage" /\ ret.key = "FrameTime"
  /\ ret.num = 3 /\ ret.den = 2
  /\ PerfStateCache["FrameTime"].CurrentSampleIndex = 0

C12_StartStopOnlyToggle ==
  [][ /\ ENABLED StartCharting /\ ENABLED StopCharting
      /\ ret'.op \in {"StartCharting", "StopCharting"} =>
           /\ PerfStateCache' = PerfStateCache
           /\ charting' = (ret'.op = "StartCharting") ]_vars

C12_Witness ==
  /\ ret.op = "StartCharting" /\ charting
  /\ "ClientFPS" \in Tracked(PerfStateCache)
  /\ lastRecorded["ClientFPS"] = 2
  /\ GetLastCachedStat(PerfStateCache["ClientFPS"]) = 2

\* ---------------------------------- further properties of SpecCache
\* C14: ForEachCurrentSample starts at the most recently sampled index: the
\* first value given to Func is the sample RecordSample wrote last.
C14_FirstVisitedIsNewest ==
  (Constructed /\ NumRecorded >= 1) =>
     ForEachCurrentSample(cache)[1] = recorded[NumRecorded]

C15_WitnessFresh ==
  /\ Constructed /\ Capacity = 3
  /\ recorded = <<>>
  /\ ForEachCurrentSample(cache) = <<0, 0, 0>>

\* C19: a buffer of capacity 1 has write index 0 in every state, and once a
\* sample x was recorded GetCurrentCachedStat, GetLastCachedStat, GetMin,
\* GetMax and GetAverage all equal the latest x.
C19_CapacityOne ==
  (Constructed /\ Capacity = 1) =>
     /\ cache.CurrentSampleIndex = 0
     /\ (NumRecorded >= 1 =>
           LET x == recorded[NumRecorded] IN
           /\ GetCurrentCachedStat(cache) = x
           /\ GetLastCachedStat(cache) = x
           /\ GetMin(cache) = x
           /\ GetMax(cache) = x
           /\ SameQuotient(GetAverage(cache), [num |-> x, den |-> 1]))

C19_Witness ==
  /\ Constructed /\ Capacity = 1
  /\ recorded = <<3, 5>>
  /\ cache.CurrentSampleIndex = 0
  /\ GetCurrentCachedStat(cache) = 5
  /\ GetLastCachedStat(cache) = 5

\* ------------------ SpecSteps: RecordSample statement by statement
\* The writer runs RecordSample one statement at a time; a reader on another
\* thread may call a query between any two statements.  A reader called only
\* at pc = "idle" is the single-threaded use.
StepValues == {1, 2}
\* what a read outside the array may yield when the program goes on
Garbage == {0, 9}

StmtStoreNext(c, Sample) ==
  [c EXCEPT !.Samples[((c.CurrentSampleIndex + 1) % Len(c.Samples)) + 1] = Sample]

\* Samples[CurrentSampleIndex] = Sample;
StmtStore(c, Sample) == [c EXCEPT !.Samples[c.CurrentSampleIndex + 1] = Sample]

\* CurrentSampleIndex++;
StmtIncrement(c) == [c EXCEPT !.CurrentSampleIndex = @ + 1]

StmtWrapLate(c) ==
  IF c.CurrentSampleIndex > Len(c.Samples)
    THEN [c EXCEPT !.CurrentSampleIndex = 0]
    ELSE c

\* if (CurrentSampleIndex >= Samples.Num()) { CurrentSampleIndex = 0u; }
StmtWrap(c) ==
  IF c.CurrentSampleIndex >= Len(c.Samples)
    THEN [c EXCEPT !.CurrentSampleIndex = 0]
    ELSE c

InitSteps ==
  /\ cache = NoCache
  /\ outcome = "none"
  /\ InSampleSize = NoArg
  /\ recorded = <<>>
  /\ ObserverIdle
  /\ NoCallInProgress

CallRecordSample(Sample) ==
  /\ outcome = "ok"
  /\ pc = "idle"
  /\ Len(recorded) < MaxStepRecords
  /\ pc' = "store"
  /\ inFlight' = Sample
  /\ UNCHANGED <<seen, cacheVars, observerVars>>

StepStore ==
  /\ pc = "store"
  /\ cache' = StmtStore(cache, inFlight)
  /\ recorded' = Append(recorded, inFlight)
  /\ pc' = "increment"
  /\ UNCHANGED <<outcome, InSampleSize, inFlight, seen, observerVars>>

StepIncrement ==
  /\ pc = "increment"
  /\ cache' = StmtIncrement(cache)
  /\ pc' = "wrap"
  /\ UNCHANGED <<outcome, InSampleSize, recorded, inFlight, seen, observerVars>>

StepWrap ==
  /\ pc = "wrap"
  /\ cache' = StmtWrap(cache)
  /\ pc' = "idle"
  /\ inFlight' = 0
  /\ UNCHANGED <<outcome, InSampleSize, recorded, seen, observerVars>>

\* Samples[Index] is inside the array
InArray(c, Index) == Index >= 0 /\ Index < Len(c.Samples)

\* the outcomes of a call that indexes outside the array
OutOfBoundsValue(method) ==
  {[Seen(method, pc) EXCEPT !.oob = TRUE, !.fatal = TRUE]}
  \cup {[Seen(method, pc) EXCEPT !.oob = TRUE, !.num = g] : g \in Garbage}

OutOfBoundsVisit(method, n) ==
  {[Seen(method, pc) EXCEPT !.oob = TRUE, !.fatal = TRUE]}
  \cup {[Seen(method, pc) EXCEPT !.oob = TRUE, !.visited = v] : v \in [1..n -> Garbage]}

ReadCurrent ==
  /\ outcome = "ok"
  /\ IF InArray(cache, cache.CurrentSampleIndex)
       THEN seen' = [Seen("GetCurrentCachedStat", pc) EXCEPT
                       !.num = GetCurrentCachedStat(cache)]
       ELSE seen' \in OutOfBoundsValue("GetCurrentCachedStat")
  /\ UNCHANGED <<pc, inFlight, cacheVars, observerVars>>

ReadLast ==
  /\ outcome = "ok"
  /\ seen' = [Seen("GetLastCachedStat", pc) EXCEPT !.num = GetLastCachedStat(cache)]
  /\ UNCHANGED <<pc, inFlight, cacheVars, observerVars>>

ReadForEach ==
  /\ outcome = "ok"
  /\ IF InArray(cache, cache.CurrentSampleIndex)
       THEN seen' = [Seen("ForEachCurrentSample", pc) EXCEPT
                       !.visited = ForEachCurrentSample(cache)]
       ELSE seen' \in OutOfBoundsVisit("ForEachCurrentSample", cache.SampleSize)
  /\ UNCHANGED <<pc, inFlight, cacheVars, observerVars>>

NextSteps ==
  \/ \E size \in CapacityInputs : Construct(size)
  \/ \E Sample \in StepValues : CallRecordSample(Sample)
  \/ StepStore
  \/ StepIncrement
  \/ StepWrap
  \/ ReadCurrent
  \/ ReadLast
  \/ ReadForEach

SpecSteps == InitSteps /\ [][NextSteps]_vars

\* ------------------------------------------- properties of SpecSteps
\* the window of the last n values of a history h, zero fill first
WindowOf(h, n) ==
  LET padded == [i \in 1..n |-> 0] \o h
  IN SubSeq(padded, Len(padded) - n + 1, Len(padded))

\* the history before the latest stored sample
Earlier == SubSeq(recorded, 1, NumRecorded - 1)

\* a step in which the reader made a call
ReaderStep == seen' # seen

\* C13: a reader called between the store and the index increment of
\* RecordSample finds the new value in the slot at the write index: with
\* capacity >= 2 GetLastCachedStat returns the sample before it and
\* ForEachCurrentSample visits the newest sample first; a reader called
\* between two RecordSample calls gets the newest sample from
\* GetLastCachedStat and the window oldest to newest.
C13_TornBetweenStoreAndIncrement ==
  [][ ReaderStep =>
        /\ (seen'.at = "increment" /\ Capacity >= 2) =>
             /\ cache.Samples[cache.CurrentSampleIndex + 1] = recorded[NumRecorded]
             /\ seen'.method = "GetLastCachedStat" =>
                  seen'.num = WindowOf(Earlier, 1)[1]
             /\ seen'.method = "ForEachCurrentSample" =>
                  seen'.visited =
                     <<recorded[NumRecorded]>> \o WindowOf(Earlier, Capacity - 1)
        /\ seen'.at = "idle" =>
             /\ ~ seen'.oob
             /\ (seen'.method = "GetLastCachedStat" /\ NumRecorded >= 1) =>
                  seen'.num = recorded[NumRecorded]
             /\ seen'.method = "ForEachCurrentSample" =>
                  seen'.visited = WindowOf(recorded, Capacity) ]_vars

C13_Witness ==
  /\ Constructed /\ Capacity = 2
  /\ pc = "increment"
  /\ recorded = <<1, 1, 2>>
  /\ seen.method = "ForEachCurrentSample" /\ seen.at = "increment"
  /\ seen.visited = <<2, 1>>
  /\ GetLastCachedStat(cache) = 1

\* the cache with every slot holding its own index
SlotNumbered(c) == [c EXCEPT !.Samples = [i \in 1..Len(c.Samples) |-> i - 1]]

\* C17: called with the write index inside 0..C-1, ForEachCurrentSample ends
\* after exactly C calls of Func, visits every slot once, from the write index
\* on and wrapping from slot C-1 to slot 0, and leaves the buffer as it was.
C17_ForEachVisitsEachSlotOnce ==
  [][ (ReaderStep /\ seen'.method = "ForEachCurrentSample"
         /\ InArray(cache, cache.CurrentSampleIndex)) =>
        LET slots == ForEachCurrentSample(SlotNumbered(cache)) IN
        /\ Len(seen'.visited) = Capacity
        /\ Len(slots) = Capacity
        /\ {slots[i] : i \in 1..Capacity} = 0..(Capacity - 1)
        /\ \A i \in 1..Capacity :
              /\ slots[i] = (cache.CurrentSampleIndex + i - 1) % Capacity
              /\ seen'.visited[i] = cache.Samples[slots[i] + 1]
        /\ ~ seen'.oob
        /\ cache' = cache ]_vars

C17_Witness ==
  /\ Constructed /\ Capacity = 3 /\ pc = "idle"
  /\ cache.CurrentSampleIndex = 1
  /\ recorded = <<1, 2, 1, 2>>
  /\ seen.method = "ForEachCurrentSample" /\ seen.at = "idle"
  /\ seen.visited = <<2, 1, 2>>

\* C20 as stated: at every statement boundary of RecordSample the write index
\* is inside 0..C-1 and no reader call indexes outside the array.
C20_IndexInRangeAtEveryStep ==
  Constructed =>
     /\ InArray(cache, cache.CurrentSampleIndex)
     /\ ~ seen.oob

\* C20 amended: the write index is inside 0..C at every statement boundary;
\* it equals C only between the increment and the wrap check, after the C-th
\* slot was written, and only a GetCurrentCachedStat or ForEachCurrentSample
\* call made there indexes outside the array.
C20_IndexInRangeExceptBeforeWrap ==
  Constructed =>
     /\ cache.CurrentSampleIndex \in 0..Capacity
     /\ cache.CurrentSampleIndex = Capacity => pc = "wrap"
     /\ pc # "wrap" => InArray(cache, cache.CurrentSampleIndex)
     /\ seen.oob =>
          /\ seen.at = "wrap"
          /\ seen.method \in {"GetCurrentCachedStat", "ForEachCurrentSample"}

C20_Witness ==
  /\ Constructed /\ Capacity = 2
  /\ pc = "wrap"
  /\ cache.CurrentSampleIndex = 2
  /\ seen.method = "GetCurrentCachedStat" /\ seen.at = "wrap" /\ seen.oob

\* ---------------------------------------- further properties of Spec
FrameStep == ret'.op = "ProcessFrame"

\* C16: ProcessFrame can always be called; it records one sample into the
\* buffer of every stat it derives from the frame data (the write index
\* advances by one modulo the capacity and the newest sample is the frame's
\* value) and neither records into nor creates a buffer for any other stat.
C16_FrameRecordsOncePerStat ==
  /\ [](\A FrameData \in FrameDatas : ENABLED ProcessFrame(FrameData))
  /\ [][ FrameStep =>
           /\ Tracked(PerfStateCache') = Tracked(PerfStateCache) \cup RecordedStats
           /\ \A Stat \in RecordedStats :
                 LET before == IF Stat \in Tracked(PerfStateCache)
                                 THEN PerfStateCache[Stat].CurrentSampleIndex
                                 ELSE 0
                     after == PerfStateCache'[Stat]
                 IN /\ after.CurrentSampleIndex = (before + 1) % after.SampleSize
                    /\ GetLastCachedStat(after) = lastRecorded'[Stat]
           /\ \A Stat \in StatTypes \ RecordedStats :
                 /\ Stat \notin Tracked(PerfStateCache')
                 /\ Stat \notin Tracked(PerfStateCache) ]_vars

C16_Witness ==
  /\ ret.op = "ProcessFrame"
  /\ SampleWindow = 2
  /\ Tracked(PerfStateCache) = RecordedStats
  /\ PerfStateCache["ClientFPS"].CurrentSampleIndex = 0
  /\ PerfStateCache["ClientFPS"].Samples = <<1, 2>>
  /\ PerfStateCache["FrameTime"].Samples = <<2, 0>>

\* C18: recording a sample into the buffer of one stat sets the slot at the
\* write index the buffer had before the call, advances the write index by one
\* modulo the capacity, and leaves every other slot, the capacity and the
\* buffers of all other stats as they were.
C18_RecordChangesOneSlot ==
  /\ [](\A Stat \in RecordedStats, Value \in FrameValues :
           LET after == RecordStat(PerfStateCache, SampleWindow, Stat, Value)
           IN \A other \in Tracked(PerfStateCache) \ {Stat} :
                 after[other] = PerfStateCache[other])
  /\ [][ FrameStep =>
           \A Stat \in Tracked(PerfStateCache) \cap RecordedStats :
              LET before == PerfStateCache[Stat]
                  after == PerfStateCache'[Stat]
                  slot == before.CurrentSampleIndex + 1
              IN /\ after.SampleSize = before.SampleSize
                 /\ Len(after.Samples) = Len(before.Samples)
                 /\ after.Samples[slot] = lastRecorded'[Stat]
                 /\ \A i \in 1..Len(before.Samples) :
                       i # slot => after.Samples[i] = before.Samples[i]
                 /\ after.CurrentSampleIndex =
                       (before.CurrentSampleIndex + 1) % before.SampleSize ]_vars

C18_Witness ==
  /\ ret.op = "ProcessFrame"
  /\ SampleWindow = 2
  /\ PerfStateCache["ClientFPS"].CurrentSampleIndex = 1
  /\ PerfStateCache["ClientFPS"].Samples = <<2, 1>>
  /\ lastRecorded["ClientFPS"] = 2

====
